---- MODULE Spec2Model ----
(***************************************************************************)
(* Verification model of two transpiler passes of qiskit-terra:            *)
(*   - Unroller.run           (transpiler/passes/mapping/unroller.py)      *)
(*   - UnitarySynthesis.run   (transpiler/passes/synthesis/                *)
(*                             unitary_synthesis.py)                       *)
(* together with the cu3 decomposition rule (extensions/standard/cu3.py).  *)
(*                                                                         *)
(* A circuit graph is kept as the sequence of its operation nodes in one   *)
(* topological order; input and output nodes carry no data the passes      *)
(* read and are left out.  Angles are integers (multiples of a fixed unit) *)
(* and only even values are drawn, so that halving is exact.               *)
(***************************************************************************)
EXTENDS Integers, Sequences, FiniteSets, TLC

(***************************************************************************)
(* Bounds of the model.                                                    *)
(***************************************************************************)
MaxDagLen == 2

MaxRuleLen == 1

RecursionLimit == 2

MaxSynthNodes == 1

\* Most classical bits of a measurement outcome.
MaxClbits == 3

\* Most distinct outcomes in a counts dictionary.
MaxOutcomes == 4

(***************************************************************************)
(* Vocabulary.                                                             *)
(***************************************************************************)
\* Gate names with no class of their own in the sources: their rules are
\* an input of the model.
GenericNames == {"a", "b"}

\* The gates the cu3 rule is written in.
Cu3Children == {"u1", "u3", "cx"}

\* The fundamental gates named in the docstring of Unroller.run.
Fundamental == {"U", "CX"}

GateNames == GenericNames \cup Cu3Children \cup Fundamental \cup {"cu3"}

\* condition = None
NoCond == << >>

\* The classical conditions drawn for input nodes: (register, value).
Conditions == {NoCond, <<"c", 1>>}

\* Angles drawn for cu3 parameters.
Angles == {-2, 0, 2}

VARIABLES
    \* ---- Unroller ----
    basis,        \* self.basis
    rules,        \* op._decompositions of the generic gates, by name
    opaqueGates,  \* names of the gates whose instances carry opaque = True
    inp,          \* the graph as the caller passed it to the outermost run
    dag,          \* the graph, rewritten in place
    pc,           \* position in Unroller.run
    depth,        \* nesting depth of self.run
    rerun         \* TRUE once the caller has run the pass a second time

VARIABLES
    \* ---- UnitarySynthesis ----
    basis_gates,     \* self._basis_gates
    fidelity,        \* self._fidelity
    coupling_map,    \* self._coupling_map
    backend_props,   \* self._backend_props
    pulse_optimize,  \* self._pulse_optimize
    layout,          \* self.property_set['layout']: None, or a layout of
                     \* qubits 0 and 1, the identity or their exchange
    kak_orientation, \* the qubits, in its own register, on which the
                     \* two-qubit decomposer applies its entangling gate
    euler_basis,     \* run's local euler_basis
    kak_gate,        \* run's local kak_gate
    sinp,            \* the graph as the caller passed it to run
    sdag,            \* the graph, rewritten in place
    pending,         \* the nodes dag.named_nodes gave, not yet visited
    log,             \* what run computed for each node it visited
    spc              \* position in UnitarySynthesis.run

VARIABLES
    \* ---- marginal_counts ----
    counts,          \* the argument counts: outcome -> number of shots
    indices,         \* the argument indices, or None
    pad_zeros,       \* the argument pad_zeros
    ret,             \* the dictionary returned
    mpc              \* position in marginal_counts

VARIABLES
    \* ---- one Cu3Gate ----
    cu3param,          \* self.param
    cu3decompositions, \* self._decompositions: << >> for None
    cu3used,           \* the rule the unroller last took for the gate
    cu3pc              \* the last operation on the gate and its outcome

uvars == <<basis, rules, opaqueGates, inp, dag, pc, depth, rerun>>

sconf == <<basis_gates, fidelity, coupling_map, backend_props,
           pulse_optimize, layout, kak_orientation>>

svars == <<basis_gates, fidelity, coupling_map, backend_props,
           pulse_optimize, layout, kak_orientation,
           euler_basis, kak_gate, sinp, sdag, pending, log, spc>>

mvars == <<counts, indices, pad_zeros, ret, mpc>>

gvars == <<cu3param, cu3decompositions, cu3used, cu3pc>>

\* What the two passes leave alone.
ovars == <<mvars, gvars>>

vars == <<basis, rules, opaqueGates, inp, dag, pc, depth, rerun,
          basis_gates, fidelity, coupling_map, backend_props,
          pulse_optimize, layout, kak_orientation,
          euler_basis, kak_gate, sinp, sdag, pending, log, spc,
          counts, indices, pad_zeros, ret, mpc,
          cu3param, cu3decompositions, cu3used, cu3pc>>

(***************************************************************************)
(* Sequence helpers.                                                       *)
(***************************************************************************)
\* All sequences over S of length 0..n.
SeqUpTo(S, n) == UNION {[1..k -> S] : k \in 0..n}

\* Position of the first occurrence of x in s (0 if none): list.index.
RECURSIVE IndexFrom(_, _, _)
IndexFrom(s, x, i) ==
    IF i > Len(s) THEN 0
    ELSE IF s[i] = x THEN i
    ELSE IndexFrom(s, x, i + 1)

IndexOf(s, x) == IndexFrom(s, x, 1)

Range(s) == {s[i] : i \in DOMAIN s}

(***************************************************************************)
(* cu3: the decomposition rule.                                            *)
(***************************************************************************)
\* x / 2 on the even values the model draws.
Half(x) == x \div 2

\* An operation inside a rule (qargs are indices into the rule's own
\* register q) or a node of the graph (qargs are qubits of the circuit).
Op(name, params, qargs, opq) ==
    [name |-> name, params |-> params, qargs |-> qargs,
     cond |-> NoCond, opaque |-> opq, origin |-> 0]

\* Mutant: the u1 angle taken as (phi - lambda)/2.
Cu3RuleSignSlip(param) ==
    [nq |-> 2, cregs |-> << >>,
     ops |-> << Op("u1", <<Half(param[2] - param[3])>>, <<1>>, FALSE),
                Op("cx", << >>, <<0, 1>>, FALSE),
                Op("u3", <<Half(-param[1]), 0, Half(-(param[2] + param[3]))>>,
                   <<1>>, FALSE),
                Op("cx", << >>, <<0, 1>>, FALSE),
                Op("u3", <<Half(param[1]), param[2], 0>>, <<1>>, FALSE) >>]

\* Cu3Gate._define_decompositions: the rule list built from param.
Cu3Rule(param) ==
    [nq |-> 2, cregs |-> << >>,
     ops |-> << Op("u1", <<Half(param[3] - param[2])>>, <<1>>, FALSE),
                Op("cx", << >>, <<0, 1>>, FALSE),
                Op("u3", <<Half(-param[1]), 0, Half(-(param[2] + param[3]))>>,
                   <<1>>, FALSE),
                Op("cx", << >>, <<0, 1>>, FALSE),
                Op("u3", <<Half(param[1]), param[2], 0>>, <<1>>, FALSE) >>]

(***************************************************************************)
(* Unroller.                                                               *)
(***************************************************************************)
\* The parameters of an operation named child in a rule of node: U takes
\* the parent's angles as (theta, phi, lambda), the others take none.
ChildParams(node, child) ==
    IF child = "U"
    THEN [k \in 1..3 |->
             IF k + Len(node.params) - 3 >= 1
             THEN node.params[k + Len(node.params) - 3]
             ELSE 0]
    ELSE << >>

\* A rule given by the names of its operations: each acts on all wires of
\* the rule's register, which is as wide as the gate the rule belongs to.
NamedRule(node, body, opq) ==
    [nq |-> Len(node.qargs), cregs |-> << >>,
     ops |-> [i \in DOMAIN body |->
                 Op(body[i], ChildParams(node, body[i]),
                    [k \in DOMAIN node.qargs |-> k - 1], body[i] \in opq)]]

\* Mutant: the rule of a cu3 gate is never built.
DecompositionsUnbuilt(node, rls, opq) ==
    IF node.name = "cu3" THEN << >>
    ELSE [i \in DOMAIN rls[node.name] |->
             NamedRule(node, rls[node.name][i], opq)]

\* current_node["op"]._decompositions
Decompositions(node, rls, opq) ==
    IF node.name = "cu3" THEN << Cu3Rule(node.params) >>
    ELSE [i \in DOMAIN rls[node.name] |->
             NamedRule(node, rls[node.name][i], opq)]

\* Mutant: the opaque flag is not read.
NeedsExpansionIgnoringOpaque(node, bs) == node.name \notin bs

\* Mutant: the basis is not read.
NeedsExpansionIgnoringBasis(node, bs) == ~node.opaque

\* The guard of the loop body: an op node outside the basis, not opaque.
NeedsExpansion(node, bs) ==
    /\ node.name \notin bs
    /\ ~node.opaque

\* Lines 64-75: the rule replayed under the node's condition.
AddCreg(cregs, reg) ==
    IF IndexOf(cregs, reg) = 0 THEN Append(cregs, reg) ELSE cregs

\* Mutant: the operations are replayed without the condition.
AmendRuleUnconditioned(ddag, condition) ==
    IF condition # NoCond
    THEN [ddag EXCEPT !.cregs = AddCreg(ddag.cregs, condition[1])]
    ELSE ddag

AmendRule(ddag, condition) ==
    IF condition # NoCond
    THEN [ddag EXCEPT
            !.cregs = AddCreg(ddag.cregs, condition[1]),
            !.ops = [i \in DOMAIN ddag.ops |->
                        [ddag.ops[i] EXCEPT !.cond = condition]]]
    ELSE ddag

\* Lines 79-82: the wires of the rule, quantum first, then classical.
\* A wire is (register, index); every classical register has one bit.
QWires(ddag) == [i \in 1..ddag.nq |-> <<"q", i - 1>>]

CWires(ddag) == [i \in DOMAIN ddag.cregs |-> <<ddag.cregs[i], 0>>]

\* DAGCircuit.substitute_circuit_one: the node at pos is replaced by the
\* operations of ddag, wires[k] joined to the node's k-th wire.
SubstituteCircuitOne(d, pos, ddag, wires) ==
    LET node == d[pos]
        new  == [i \in DOMAIN ddag.ops |->
                   [ddag.ops[i] EXCEPT
                      !.qargs = [j \in DOMAIN ddag.ops[i].qargs |->
                                   node.qargs[IndexOf(wires,
                                        <<"q", ddag.ops[i].qargs[j]>>)]],
                      !.origin = node.origin]]
    IN  SubSeq(d, 1, pos - 1) \o new \o SubSeq(d, pos + 1, Len(d))

\* Lines 49-86: the loop over topological_sorted_list.  todo is the number
\* of nodes of the list still to visit, pos the place in d of the next one.
\* The result is the graph and whether TranspilerError was raised.
RECURSIVE ForEachNode(_, _, _, _, _, _)
ForEachNode(d, pos, todo, bs, rls, opq) ==
    IF todo = 0 THEN [err |-> FALSE, dag |-> d]
    ELSE IF NeedsExpansion(d[pos], bs)
         THEN LET decomposition_rules == Decompositions(d[pos], rls, opq)
              IN  IF decomposition_rules = << >>
                  THEN [err |-> TRUE, dag |-> d]
                  ELSE LET ddag  == AmendRule(decomposition_rules[1],
                                              d[pos].cond)
                           wires == QWires(ddag) \o CWires(ddag)
                       IN  ForEachNode(
                               SubstituteCircuitOne(d, pos, ddag, wires),
                               pos + Len(ddag.ops), todo - 1, bs, rls, opq)
         ELSE ForEachNode(d, pos + 1, todo - 1, bs, rls, opq)

\* Mutant: opaque operations are counted too.
GateSetWithOpaque(d) == {d[i].name : i \in DOMAIN d}

\* Lines 89-92: the names of the non-opaque operations of the graph.
GateSet(d) == {d[i].name : i \in {j \in DOMAIN d : ~d[j].opaque}}

\* Mutant: the subset test the wrong way round.
UnrolledReversed(d, bs) == bs \subseteq GateSet(d)

\* Line 94: gate_set.issubset(self.basis)
Unrolled(d, bs) == GateSet(d) \subseteq bs

\* Lines 48-86 of one call of run.
Expand ==
    /\ pc = "loop"
    /\ LET r == ForEachNode(dag, 1, Len(dag), basis, rules, opaqueGates)
       IN  /\ dag' = r.dag
           /\ pc' = IF r.err THEN "error" ELSE "check"
    /\ UNCHANGED <<basis, rules, opaqueGates, inp, depth, rerun>>
    /\ UNCHANGED svars
    /\ UNCHANGED ovars

\* Lines 94-95: not yet unrolled, run calls itself; the interpreter's
\* recursion limit ends a recursion that is too deep with RecursionError.
Recurse ==
    /\ pc = "check"
    /\ ~Unrolled(dag, basis)
    /\ IF depth < RecursionLimit
       THEN /\ depth' = depth + 1
            /\ pc' = "loop"
       ELSE /\ depth' = depth
            /\ pc' = "overflow"
    /\ UNCHANGED <<basis, rules, opaqueGates, inp, dag, rerun>>
    /\ UNCHANGED svars
    /\ UNCHANGED ovars

\* Lines 94, 96: unrolled; this call and every enclosing one return dag.
Return ==
    /\ pc = "check"
    /\ Unrolled(dag, basis)
    /\ pc' = "done"
    /\ UNCHANGED <<basis, rules, opaqueGates, inp, dag, depth, rerun>>
    /\ UNCHANGED svars
    /\ UNCHANGED ovars

\* The caller runs the pass again on the graph it got back.
Renumber(d) == [i \in DOMAIN d |-> [d[i] EXCEPT !.origin = i]]

RunAgain ==
    /\ pc = "done"
    /\ ~rerun
    /\ rerun' = TRUE
    /\ dag' = Renumber(dag)
    /\ inp' = Renumber(dag)
    /\ depth' = 0
    /\ pc' = "loop"
    /\ UNCHANGED <<basis, rules, opaqueGates>>
    /\ UNCHANGED svars
    /\ UNCHANGED ovars

(***************************************************************************)
(* UnitarySynthesis.                                                       *)
(***************************************************************************)
\* None, for a value that is otherwise a number; also a calibration table
\* entry whose lookup raises BackendPropertyError.
NoneVal == -1

\* math.inf: longer than every gate duration.
Inf == 1000

\* natural_direction = None
NoDirection == << >>

\* Matrices are tuples of rows.  Basis states are numbered 2*q1 + q0.
I2 == << <<1, 0>>, <<0, 1>> >>

X2 == << <<0, 1>>, <<1, 0>> >>

\* The Kronecker product A (x) B of two 2x2 matrices.
Kron(A, B) ==
    [r \in 1..4 |-> [c \in 1..4 |->
        A[((r - 1) \div 2) + 1][((c - 1) \div 2) + 1]
          * B[((r - 1) % 2) + 1][((c - 1) % 2) + 1]]]

\* cx with control q0 and target q1, with control q1 and target q0, swap.
CX01 == << <<1, 0, 0, 0>>, <<0, 0, 0, 1>>, <<0, 0, 1, 0>>, <<0, 1, 0, 0>> >>

CX10 == << <<1, 0, 0, 0>>, <<0, 1, 0, 0>>, <<0, 0, 0, 1>>, <<0, 0, 1, 0>> >>

SwapMatrix ==
    << <<1, 0, 0, 0>>, <<0, 0, 1, 0>>, <<0, 1, 0, 0>>, <<0, 0, 0, 1>> >>

LocalMatrices == {Kron(A, B) : A \in {I2, X2}, B \in {I2, X2}}

\* The identity on three qubits.
I8 == [r \in 1..8 |-> [c \in 1..8 |-> IF r = c THEN 1 ELSE 0]]

\* _choose_euler_basis: the families in the order of the dict.
EulerBasisNames ==
    << <<"U3", {"u3"}>>, <<"U1X", {"u1", "rx"}>>, <<"RR", {"r"}>>,
       <<"ZYZ", {"rz", "ry"}>>, <<"ZXZ", {"rz", "rx"}>>,
       <<"XYX", {"rx", "ry"}>> >>

\* Mutant: the families are tried last to first.
RECURSIVE LastEulerBasis(_, _)
LastEulerBasis(basis_set, i) ==
    IF i > Len(EulerBasisNames) THEN "None"
    ELSE IF EulerBasisNames[Len(EulerBasisNames) + 1 - i][2]
               \subseteq basis_set
         THEN EulerBasisNames[Len(EulerBasisNames) + 1 - i][1]
         ELSE LastEulerBasis(basis_set, i + 1)

RECURSIVE FirstEulerBasis(_, _)
FirstEulerBasis(basis_set, i) ==
    IF i > Len(EulerBasisNames) THEN "None"
    ELSE IF EulerBasisNames[i][2] \subseteq basis_set
         THEN EulerBasisNames[i][1]
         ELSE FirstEulerBasis(basis_set, i + 1)

ChooseEulerBasis(bg) == FirstEulerBasis(bg, 1)

\* _choose_kak_gate: kak_gates.pop() takes some element of the
\* intersection; which one is up to the set's iteration order.
KakGateNames == {"cx", "cz", "iswap", "rxx", "ecr"}

ChooseKakGate(bg) ==
    IF bg \cap KakGateNames = {} THEN {"None"} ELSE bg \cap KakGateNames

\* Line 124 with the swap nodes listed whatever pulse_optimize says.
NodesToSynthesizeWithSwap(pulse) == {"unitary", "swap"}

\* Line 124 and dag.named_nodes: the nodes to visit, in graph order.
NodesToSynthesize(pulse) ==
    IF pulse THEN {"unitary", "swap"} ELSE {"unitary"}

NamedNodes(d, names) ==
    LET Named(n) == n.name \in names
        sel == SelectSeq(d, Named)
    IN  [i \in DOMAIN sel |-> sel[i].origin]

\* CouplingMap.neighbors
Neighbors(cm, q) == {e[2] : e \in {f \in cm.edges : f[1] = q}}

\* Lines 142-147.
CouplingDirection(cm, qargs) ==
    LET zero_one == qargs[2] \in Neighbors(cm, qargs[1])
        one_zero == qargs[1] \in Neighbors(cm, qargs[2])
    IN  IF one_zero /\ ~zero_one THEN <<1, 0>>
        ELSE IF zero_one /\ ~one_zero THEN <<0, 1>>
        ELSE NoDirection

\* Lines 150-161: a duration, or inf where the lookup raises.
LengthOrInf(props, qubits) ==
    IF props.length[qubits] = NoneVal THEN Inf ELSE props.length[qubits]

\* Mutant: a missing duration counts as the shortest.
DurationDirectionMissingFirst(props, qargs) ==
    LET len_0_1 == props.length[<<qargs[1], qargs[2]>>]
        len_1_0 == props.length[<<qargs[2], qargs[1]>>]
    IN  IF len_0_1 < len_1_0 THEN <<0, 1>>
        ELSE IF len_1_0 < len_0_1 THEN <<1, 0>>
        ELSE NoDirection

\* Lines 163-166.
DurationDirection(props, qargs) ==
    LET len_0_1 == LengthOrInf(props, <<qargs[1], qargs[2]>>)
        len_1_0 == LengthOrInf(props, <<qargs[2], qargs[1]>>)
    IN  IF len_0_1 < len_1_0 THEN <<0, 1>>
        ELSE IF len_1_0 < len_0_1 THEN <<1, 0>>
        ELSE NoDirection

\* Lines 137-171: natural_direction and physical_gate_fidelity, or the
\* BackendPropertyError that the lookups of lines 168-171 let through.
Heuristics(qargs, lay, cm, props) ==
    IF lay # "None" /\ cm.present
    THEN [raised |-> FALSE, natural_direction |-> CouplingDirection(cm, qargs),
          physical_gate_fidelity |-> NoneVal]
    ELSE IF lay # "None" /\ props.present
    THEN LET nd == DurationDirection(props, qargs)
             qs == IF nd = NoDirection THEN << >>
                   ELSE <<qargs[nd[1] + 1], qargs[nd[2] + 1]>>
         IN  IF nd = NoDirection
             THEN [raised |-> FALSE, natural_direction |-> nd,
                   physical_gate_fidelity |-> NoneVal]
             ELSE IF props.error[qs] = NoneVal \/ props.length[qs] = NoneVal
             THEN [raised |-> TRUE, natural_direction |-> nd,
                   physical_gate_fidelity |-> NoneVal]
             ELSE [raised |-> FALSE, natural_direction |-> nd,
                   physical_gate_fidelity |-> 100 - props.error[qs]]
    ELSE [raised |-> FALSE, natural_direction |-> NoDirection,
          physical_gate_fidelity |-> NoneVal]

\* Line 173: self._fidelity or physical_gate_fidelity
BasisFidelity(fid, physical) ==
    IF fid # NoneVal /\ fid # 0 THEN fid ELSE physical

\* Lines 183-185: rows 1 and 2 exchanged, then columns 1 and 2.
Mirrored(mat) ==
    LET sw(k) == IF k = 2 THEN 3 ELSE IF k = 3 THEN 2 ELSE k
        rows  == [r \in DOMAIN mat |-> mat[sw(r)]]
    IN  [r \in DOMAIN rows |-> [c \in DOMAIN rows[r] |-> rows[r][sw(c)]]]

\* A gate of a synthesised circuit, on qubits lq of the circuit's register.
Gate(name, lq) == [name |-> name, lq |-> lq]

\* OneQubitEulerDecomposer: a gate sequence over the chosen family.
Decomposer1q(eb, mat) ==
    IF eb = "U3" THEN << Gate("u3", <<0>>) >>
    ELSE IF eb = "U1X"
    THEN << Gate("u1", <<0>>), Gate("rx", <<0>>), Gate("u1", <<0>>),
            Gate("rx", <<0>>), Gate("u1", <<0>>) >>
    ELSE IF eb = "RR" THEN << Gate("r", <<0>>), Gate("r", <<0>>) >>
    ELSE IF eb = "ZYZ"
    THEN << Gate("rz", <<0>>), Gate("ry", <<0>>), Gate("rz", <<0>>) >>
    ELSE IF eb = "ZXZ"
    THEN << Gate("rz", <<0>>), Gate("rx", <<0>>), Gate("rz", <<0>>) >>
    ELSE << Gate("rx", <<0>>), Gate("ry", <<0>>), Gate("rx", <<0>>) >>

\* The number of entangling gates the two-qubit decomposer spends.
TwoQubitCount(mat) ==
    IF mat \in LocalMatrices THEN 0
    ELSE IF mat = SwapMatrix THEN 3
    ELSE 1

\* TwoQubitBasisDecomposer: one-qubit gates around TwoQubitCount(mat)
\* applications of the entangling gate, each on the qubits orient of the
\* decomposer's own register.
Decomposer2q(kak, eb, orient, mat, basis_fidelity) ==
    LET one   == IF eb = "None" THEN "u3" ELSE Decomposer1q(eb, I2)[1].name
        layer == << Gate(one, <<0>>), Gate(one, <<1>>) >>
        block == << Gate(kak, orient) >> \o layer
    IN  layer \o (IF TwoQubitCount(mat) >= 1 THEN block ELSE << >>)
              \o (IF TwoQubitCount(mat) >= 2 THEN block ELSE << >>)
              \o (IF TwoQubitCount(mat) >= 3 THEN block ELSE << >>)

\* isometry.Isometry(matrix, 0, 0).definition: elementary gates.
IsometryDefinition(mat) ==
    << Gate("u3", <<0>>), Gate("cx", <<0, 1>>), Gate("cx", <<1, 2>>) >>

\* synth_dag.two_qubit_ops()
TwoQubitOps(circ) ==
    LET Two(g) == Len(g.lq) = 2
    IN  SelectSeq(circ, Two)

\* synth_dag.wires of a circuit on n qubits, and the same reversed.
Wires(n) == [k \in 1..n |-> k - 1]

Reversed(w) == [k \in DOMAIN w |-> w[Len(w) + 1 - k]]

\* Lines 178-188 without line 188: the mirrored circuit on unreversed wires.
ResynthesisWiresKept(nd, pulse, first, kak, eb, orient, mat, bf) ==
    IF /\ nd # NoDirection
       /\ pulse
       /\ TwoQubitOps(first) # << >>
       /\ TwoQubitOps(first)[1].lq # nd
    THEN [circ |-> Decomposer2q(kak, eb, orient, Mirrored(mat), bf),
          mat |-> Mirrored(mat), wires |-> Wires(2), resynth |-> TRUE]
    ELSE [circ |-> first, mat |-> mat, wires |-> Wires(2),
          resynth |-> FALSE]

\* Lines 178-188: the circuit to splice and its wires, given the first
\* synthesis; wires = None is the order of the circuit's own wires.
Resynthesis(nd, pulse, first, kak, eb, orient, mat, bf) ==
    IF /\ nd # NoDirection
       /\ pulse
       /\ TwoQubitOps(first) # << >>
       /\ TwoQubitOps(first)[1].lq # nd
    THEN [circ |-> Decomposer2q(kak, eb, orient, Mirrored(mat), bf),
          mat |-> Mirrored(mat), wires |-> Reversed(Wires(2)),
          resynth |-> TRUE]
    ELSE [circ |-> first, mat |-> mat, wires |-> Wires(2),
          resynth |-> FALSE]

\* Lines 127-193: what the loop body does with one node: continue, raise,
\* or a circuit to splice in.
Synthesize(node, eb, kak, fid, lay, cm, props, pulse, orient) ==
    LET none == [outcome |-> "continue", circ |-> << >>, mat |-> node.mat,
                 wires |-> << >>, natural_direction |-> NoDirection,
                 physical_gate_fidelity |-> NoneVal,
                 basis_fidelity |-> NoneVal, resynth |-> FALSE]
    IN  IF Len(node.qargs) = 1
        THEN IF eb = "None" THEN none
             ELSE [none EXCEPT !.outcome = "replace",
                               !.circ = Decomposer1q(eb, node.mat),
                               !.wires = Wires(1)]
        ELSE IF Len(node.qargs) = 2
        THEN IF kak = "None" THEN none
             ELSE LET h  == Heuristics(node.qargs, lay, cm, props)
                      bf == BasisFidelity(fid, h.physical_gate_fidelity)
                      r  == Resynthesis(h.natural_direction, pulse,
                               Decomposer2q(kak, eb, orient, node.mat, bf),
                               kak, eb, orient, node.mat, bf)
                  IN  IF h.raised
                      THEN [none EXCEPT
                              !.outcome = "raise",
                              !.natural_direction = h.natural_direction]
                      ELSE [outcome |-> "replace", circ |-> r.circ,
                            mat |-> r.mat, wires |-> r.wires,
                            natural_direction |-> h.natural_direction,
                            physical_gate_fidelity |->
                                h.physical_gate_fidelity,
                            basis_fidelity |-> bf, resynth |-> r.resynth]
        ELSE [none EXCEPT !.outcome = "replace",
                          !.circ = IsometryDefinition(node.mat),
                          !.wires = Wires(Len(node.qargs))]

\* DAGCircuit.substitute_node_with_dag: the node at pos is replaced by the
\* gates of circ, wires[k] joined to the node's k-th qubit.
SubstituteNodeWithDag(d, pos, circ, wires, mat) ==
    LET node == d[pos]
        new  == [i \in DOMAIN circ |->
                   [name |-> circ[i].name,
                    qargs |-> [j \in DOMAIN circ[i].lq |->
                                 node.qargs[IndexOf(wires, circ[i].lq[j])]],
                    mat |-> mat, origin |-> node.origin,
                    lq |-> circ[i].lq, synth |-> TRUE]]
    IN  SubSeq(d, 1, pos - 1) \o new \o SubSeq(d, pos + 1, Len(d))

\* The place in d of the node the caller's graph held at place o.
RECURSIVE PlaceFrom(_, _, _)
PlaceFrom(d, o, i) ==
    IF i > Len(d) THEN 0
    ELSE IF d[i].origin = o /\ ~d[i].synth THEN i
    ELSE PlaceFrom(d, o, i + 1)

PlaceOf(d, o) == PlaceFrom(d, o, 1)

\* Lines 114-125: the decomposers are chosen and the nodes listed.
Setup ==
    /\ spc = "start"
    /\ euler_basis' = ChooseEulerBasis(basis_gates)
    /\ kak_gate' \in ChooseKakGate(basis_gates)
    /\ pending' = NamedNodes(sdag, NodesToSynthesize(pulse_optimize))
    /\ spc' = "loop"
    /\ UNCHANGED <<sconf, sinp, sdag, log>>
    /\ UNCHANGED uvars
    /\ UNCHANGED ovars

\* Lines 125-194: the loop body, for the next node of the list.
SynthNode ==
    /\ spc = "loop"
    /\ pending # << >>
    /\ LET pos == PlaceOf(sdag, Head(pending))
           r   == Synthesize(sdag[pos], euler_basis, kak_gate, fidelity,
                             layout, coupling_map, backend_props,
                             pulse_optimize, kak_orientation)
       IN  /\ sdag' = IF r.outcome = "replace"
                      THEN SubstituteNodeWithDag(sdag, pos, r.circ,
                                                 r.wires, r.mat)
                      ELSE sdag
           /\ spc' = IF r.outcome = "raise" THEN "error" ELSE "loop"
           /\ log' = Append(log,
                        [origin |-> Head(pending), outcome |-> r.outcome,
                         natural_direction |-> r.natural_direction,
                         physical_gate_fidelity |->
                             r.physical_gate_fidelity,
                         basis_fidelity |-> r.basis_fidelity,
                         resynth |-> r.resynth])
    /\ pending' = Tail(pending)
    /\ UNCHANGED <<sconf, euler_basis, kak_gate, sinp>>
    /\ UNCHANGED uvars
    /\ UNCHANGED ovars

\* Line 196: the loop is over, run returns dag.
ReturnDag ==
    /\ spc = "loop"
    /\ pending = << >>
    /\ spc' = "done"
    /\ UNCHANGED <<sconf, euler_basis, kak_gate, sinp, sdag, pending, log>>
    /\ UNCHANGED uvars
    /\ UNCHANGED ovars

(***************************************************************************)
(* Initial states.                                                         *)
(***************************************************************************)
\* A rule list holds no rule or one rule, of at most MaxRuleLen operations.
RuleLists == {<< >>} \cup {<<body>> : body \in SeqUpTo(GenericNames, MaxRuleLen)}

\* The generic names are interchangeable, so {"a"} adds nothing to {"b"}.
OpaqueChoices == {{}, {"b"}, {"a", "b"}}

GenericNode(name, cond, opq) ==
    [Op(name, << >>, <<0>>, name \in opq) EXCEPT !.cond = cond]

\* Graphs of generic gates, any rule set, any basis.
InitGeneric ==
    /\ basis \in SUBSET GenericNames
    /\ \E gr \in [GenericNames -> RuleLists] :
          rules = [n \in GateNames \ {"cu3"} |->
                      IF n \in GenericNames THEN gr[n] ELSE << >>]
    /\ opaqueGates \in OpaqueChoices
    /\ \E names \in SeqUpTo(GenericNames, MaxDagLen) :
       \E conds \in [DOMAIN names -> Conditions] :
          inp = Renumber([i \in DOMAIN names |->
                            GenericNode(names[i], conds[i], opaqueGates)])

\* The rules of the standard gates the cu3 rule is written in: not built,
\* or the one-step rules onto the fundamental gates.
StandardRules ==
    [n \in GateNames \ {"cu3"} |->
        IF n \in {"u1", "u3"} THEN << <<"U">> >>
        ELSE IF n = "cx" THEN << <<"CX">> >>
        ELSE << >>]

NoRules == [n \in GateNames \ {"cu3"} |-> << >>]

\* A lone cu3 node; the fundamental gates are opaque.
InitCu3 ==
    /\ basis \in SUBSET (Cu3Children \cup {"cu3"})
    /\ rules \in {NoRules, StandardRules}
    /\ opaqueGates = Fundamental
    /\ \E theta \in Angles, phi \in Angles, lam \in Angles :
       \E ctl \in 0..1, cond \in Conditions :
          inp = Renumber(<< [Op("cu3", <<theta, phi, lam>>,
                                <<ctl, 1 - ctl>>, FALSE)
                             EXCEPT !.cond = cond] >>)

\* The synthesis pass is not running.
SynthIdle ==
    /\ basis_gates = {}
    /\ fidelity = NoneVal
    /\ coupling_map = [present |-> FALSE, edges |-> {}]
    /\ backend_props = [present |-> FALSE,
                        length |-> [q \in {<<0, 1>>, <<1, 0>>} |-> NoneVal],
                        error |-> [q \in {<<0, 1>>, <<1, 0>>} |-> NoneVal]]
    /\ pulse_optimize = FALSE
    /\ layout = "None"
    /\ kak_orientation = <<0, 1>>
    /\ euler_basis = "None"
    /\ kak_gate = "None"
    /\ sinp = << >>
    /\ sdag = << >>
    /\ pending = << >>
    /\ log = << >>
    /\ spc = "idle"

\* The unroller is not running.
UnrollerIdle ==
    /\ basis = {}
    /\ rules = NoRules
    /\ opaqueGates = {}
    /\ inp = << >>
    /\ dag = << >>
    /\ pc = "idle"
    /\ depth = 0
    /\ rerun = FALSE

\* marginal_counts is not running.
MarginalIdle ==
    /\ counts = << >>
    /\ indices = [given |-> FALSE, idx |-> {}]
    /\ pad_zeros = FALSE
    /\ ret = << >>
    /\ mpc = "idle"

\* No Cu3Gate is followed.
GateIdle ==
    /\ cu3param = <<0, 0, 0>>
    /\ cu3decompositions = << >>
    /\ cu3used = << >>
    /\ cu3pc = "idle"

\* Nothing but the passes is running.
OthersIdle == MarginalIdle /\ GateIdle

Init ==
    /\ InitGeneric \/ InitCu3
    /\ SynthIdle
    /\ OthersIdle
    /\ dag = inp
    /\ pc = "loop"
    /\ depth = 0
    /\ rerun = FALSE

Next == Expand \/ Recurse \/ Return \/ RunAgain

Spec == Init /\ [][Next]_vars

(***************************************************************************)
(* Initial states of the synthesis pass.                                   *)
(***************************************************************************)
QubitPairs == {<<0, 1>>, <<1, 0>>}

\* The calibration tables: a duration per direction, or none; an error
\* rate for every direction, or for none.
PropsTables ==
    {[present |-> TRUE, length |-> len, error |-> [q \in QubitPairs |-> e]] :
        len \in [QubitPairs -> {NoneVal, 1, 2}], e \in {NoneVal, 5}}

NoProps ==
    [present |-> FALSE, length |-> [q \in QubitPairs |-> NoneVal],
     error |-> [q \in QubitPairs |-> NoneVal]]

SomeProps ==
    [present |-> TRUE, length |-> [q \in QubitPairs |-> 1],
     error |-> [q \in QubitPairs |-> 5]]

\* A connectivity map over qubits 0 and 1 with any of the two directed
\* edges, beside calibration data or none; or no map and any table.
Devices ==
    {<<[present |-> TRUE, edges |-> e], p>> :
        e \in SUBSET QubitPairs, p \in {NoProps, SomeProps}}
    \cup {<<[present |-> FALSE, edges |-> {}], p>> :
             p \in PropsTables \cup {NoProps}}

\* The nodes drawn for the caller's graph.
SynthNodeKinds ==
    {[name |-> "unitary", qargs |-> <<0>>, mat |-> X2],
     [name |-> "h", qargs |-> <<0>>, mat |-> X2],
     [name |-> "cx", qargs |-> <<0, 1>>, mat |-> CX01],
     [name |-> "swap", qargs |-> <<0, 1>>, mat |-> SwapMatrix],
     [name |-> "unitary", qargs |-> <<0, 1, 2>>, mat |-> I8]}
    \cup {[name |-> "unitary", qargs |-> q, mat |-> m] :
             q \in QubitPairs, m \in {CX01, Kron(X2, I2)}}

SynthGraph(nodes) ==
    [i \in DOMAIN nodes |->
        [name |-> nodes[i].name, qargs |-> nodes[i].qargs,
         mat |-> nodes[i].mat, origin |-> i, lq |-> << >>,
         synth |-> FALSE]]

SynthInit ==
    /\ UnrollerIdle
    /\ OthersIdle
    /\ basis_gates \in {{}, {"u3"}, {"cx"}, {"rz", "ry", "cx"},
                        {"u3", "cx", "cz"}}
    /\ fidelity \in {NoneVal, 100}
    /\ \E dev \in Devices : coupling_map = dev[1] /\ backend_props = dev[2]
    /\ pulse_optimize \in BOOLEAN
    /\ layout \in {"None", "identity", "swap"}
    /\ kak_orientation \in QubitPairs
    /\ euler_basis = "None"
    /\ kak_gate = "None"
    /\ sinp \in {SynthGraph(nodes) :
                    nodes \in SeqUpTo(SynthNodeKinds, MaxSynthNodes)}
    /\ sdag = sinp
    /\ pending = << >>
    /\ log = << >>
    /\ spc = "start"

\* The pass constructed over any basis of one-qubit gate names, with or
\* without cx, for a graph that is empty or holds one one-qubit unitary.
EulerGateNames == {"u3", "u1", "rx", "r", "rz", "ry"}

EulerInit ==
    /\ UnrollerIdle
    /\ OthersIdle
    /\ basis_gates \in SUBSET (EulerGateNames \cup {"cx"})
    /\ fidelity = 100
    /\ coupling_map = [present |-> FALSE, edges |-> {}]
    /\ backend_props = NoProps
    /\ pulse_optimize \in BOOLEAN
    /\ layout = "None"
    /\ kak_orientation = <<0, 1>>
    /\ euler_basis = "None"
    /\ kak_gate = "None"
    /\ sinp \in {SynthGraph(<< >>),
                 SynthGraph(<<[name |-> "unitary", qargs |-> <<0>>,
                               mat |-> X2]>>)}
    /\ sdag = sinp
    /\ pending = << >>
    /\ log = << >>
    /\ spc = "start"

SynthNext == Setup \/ SynthNode \/ ReturnDag

SpecSynth == SynthInit /\ [][SynthNext]_vars

\* The same pass, started over the bases of EulerInit.
SpecEuler == EulerInit /\ [][SynthNext]_vars

(***************************************************************************)
(* marginal_counts (result/utils.py).                                      *)
(***************************************************************************)
\* An outcome is the sequence of its characters, "0", "1" or " "; its last
\* character is bit 0.
\* key.replace(' ', '')
Replace(key) ==
    LET NotSpace(c) == c # " "
    IN  SelectSeq(key, NotSpace)

\* bin(j)[2:]
RECURSIVE Bin(_)
Bin(j) ==
    IF j < 2 THEN << (IF j = 1 THEN "1" ELSE "0") >>
    ELSE Append(Bin(j \div 2), IF j % 2 = 1 THEN "1" ELSE "0")

\* str.zfill
RECURSIVE ZFill(_, _)
ZFill(str, width) ==
    IF Len(str) >= width THEN str ELSE ZFill(<<"0">> \o str, width)

\* count_keys
CountKeys(num_clbits) ==
    [j \in 1..(2 ^ num_clbits) |-> ZFill(Bin(j - 1), num_clbits)]

\* sorted(indices, reverse=True)
RECURSIVE SortedReverse(_)
SortedReverse(S) ==
    IF S = {} THEN << >>
    ELSE LET top == CHOOSE x \in S : \A y \in S : y <= x
         IN  <<top>> \o SortedReverse(S \ {top})

\* Mutant: the pattern is grown to the right, bit 0 first.
MirroredHelper(key, sorted, x, y) ==
    IF y \in Range(sorted)
    THEN Append(x, key[IndexOf(sorted, y)])
    ELSE Append(x, "\\d")

\* Lines 62-65: _helper, for the key and the sorted indices.
Helper(key, sorted, x, y) ==
    IF y \in Range(sorted)
    THEN <<key[IndexOf(sorted, y)]>> \o x
    ELSE <<"\\d">> \o x

\* Line 66: reduce(_helper, range(num_clbits), '')
RECURSIVE Reduce(_, _, _, _, _)
Reduce(key, sorted, x, y, num_clbits) ==
    IF y >= num_clbits THEN x
    ELSE Reduce(key, sorted, Helper(key, sorted, x, y), y + 1, num_clbits)

\* re.match: the pattern, a sequence of digits and \d, matches a prefix of
\* the string.
Match(m, str) ==
    /\ Len(str) >= Len(m)
    /\ \A i \in DOMAIN m :
         IF m[i] = "\\d" THEN str[i] \in {"0", "1"} ELSE str[i] = m[i]

\* Lines 71-74: the shots of the outcomes among keys that match m.
RECURSIVE MatchCount(_, _, _)
MatchCount(m, cnts, keys) ==
    IF keys = {} THEN 0
    ELSE LET key == CHOOSE k \in keys : TRUE
         IN  (IF Match(m, Replace(key)) THEN cnts[key] ELSE 0)
                 + MatchCount(m, cnts, keys \ {key})

\* marginal_counts: the dictionary returned, or the QiskitError of line 50.
MarginalCounts(cnts, ind, pad) ==
    LET num_clbits == Len(Replace(CHOOSE k \in DOMAIN cnts : TRUE))
        sorted     == SortedReverse(ind.idx)
        meas_keys  == CountKeys(Len(sorted))
        rgx        == [i \in DOMAIN meas_keys |->
                         Reduce(meas_keys[i], sorted, << >>, 0, num_clbits)]
        meas_counts == [i \in DOMAIN rgx |->
                          MatchCount(rgx[i], cnts, DOMAIN cnts)]
        kept       == {i \in DOMAIN meas_keys : pad \/ meas_counts[i] # 0}
    IN  IF ~ind.given \/ ind.idx = 0..(num_clbits - 1)
        THEN [err |-> FALSE,
              ret |-> [key \in {Replace(k) : k \in DOMAIN cnts} |->
                         cnts[CHOOSE k \in DOMAIN cnts : Replace(k) = key]]]
        ELSE IF ~(ind.idx \subseteq 0..(num_clbits - 1))
        THEN [err |-> TRUE, ret |-> << >>]
        ELSE [err |-> FALSE,
              ret |-> [key \in {meas_keys[i] : i \in kept} |->
                         meas_counts[CHOOSE i \in kept : meas_keys[i] = key]]]

\* The call of marginal_counts, with pad_zeros given or left out.
Marginalize ==
    /\ mpc = "call"
    /\ \E pad \in BOOLEAN :
         LET r == MarginalCounts(counts, indices, pad)
         IN  /\ pad_zeros' = pad
             /\ ret' = r.ret
             /\ mpc' = IF r.err THEN "error" ELSE "done"
    /\ UNCHANGED <<counts, indices>>
    /\ UNCHANGED <<uvars, svars, gvars>>

\* The outcomes on n classical bits.
BitStrings(n) == [1..n -> {"0", "1"}]

\* The number an outcome is the binary numeral of.
RECURSIVE Value(_)
Value(key) ==
    IF key = << >> THEN 0
    ELSE 2 * Value(SubSeq(key, 1, Len(key) - 1))
           + (IF key[Len(key)] = "1" THEN 1 ELSE 0)

\* The shots of the r-th outcome of a dictionary, smallest outcome first.
Shots(r) == IF r <= 4 THEN <<10, 5, 3, 2>>[r] ELSE 1

\* The outcome written with a space after its first bit, as for two
\* classical registers.
Spaced(key) ==
    IF Len(key) < 2 THEN key
    ELSE <<key[1], " ">> \o SubSeq(key, 2, Len(key))

\* The dictionaries drawn: up to MaxOutcomes outcomes of one register, or
\* two outcomes fewer of two registers.
CountsOver(n, spaced) ==
    {[key \in {IF spaced THEN Spaced(k) ELSE k : k \in K} |->
         Shots(1 + Cardinality({k \in K : Value(k) < Value(Replace(key))}))] :
       K \in {J \in SUBSET BitStrings(n) :
                 /\ J # {}
                 /\ Cardinality(J) <= MaxOutcomes - (IF spaced THEN 2 ELSE 0)}}

MarginalInit ==
    /\ UnrollerIdle
    /\ SynthIdle
    /\ GateIdle
    /\ \E n \in 1..MaxClbits :
         /\ \E spaced \in BOOLEAN : counts \in CountsOver(n, spaced)
         /\ \/ indices = [given |-> FALSE, idx |-> {}]
            \/ \E S \in SUBSET (0..n) : indices = [given |-> TRUE, idx |-> S]
    /\ pad_zeros = FALSE
    /\ ret = << >>
    /\ mpc = "call"

MarginalNext == Marginalize

SpecMarginal == MarginalInit /\ [][MarginalNext]_vars

(***************************************************************************)
(* The life of one Cu3Gate (extensions/standard/cu3.py).                   *)
(***************************************************************************)
\* Mutant: every angle negated, none exchanged.
InvertedInPlace(param) == <<-param[1], -param[2], -param[3]>>

\* Cu3Gate.inverse, lines 56-59: the parameters of the inverted gate.
Inverted(param) == <<-param[1], -param[3], -param[2]>>

\* Cu3Gate._define_decompositions: the rule is built from self.param and
\* stored.
DefineDecompositions ==
    /\ cu3pc # "idle"
    /\ cu3decompositions' = << Cu3Rule(cu3param) >>
    /\ cu3pc' = "built"
    /\ UNCHANGED <<cu3param, cu3used>>
    /\ UNCHANGED <<uvars, svars, mvars>>

\* Cu3Gate.inverse: the parameters change in place, the rule is dropped.
Inverse ==
    /\ cu3pc # "idle"
    /\ cu3param' = Inverted(cu3param)
    /\ cu3decompositions' = << >>
    /\ cu3used' = << >>
    /\ cu3pc' = "inverted"
    /\ UNCHANGED <<uvars, svars, mvars>>

\* Unroller.run, lines 54-59, meeting the gate outside the basis: it takes
\* the first stored rule, or raises TranspilerError if there is none.
UnrollGate ==
    /\ cu3pc # "idle"
    /\ IF cu3decompositions = << >>
       THEN cu3used' = << >> /\ cu3pc' = "error"
       ELSE cu3used' = cu3decompositions[1] /\ cu3pc' = "expanded"
    /\ UNCHANGED <<cu3param, cu3decompositions>>
    /\ UNCHANGED <<uvars, svars, mvars>>

\* A gate just constructed, its rule built already or not yet.
GateInit ==
    /\ UnrollerIdle
    /\ SynthIdle
    /\ MarginalIdle
    /\ cu3param \in [1..3 -> Angles]
    /\ cu3decompositions \in {<< >>, << Cu3Rule(cu3param) >>}
    /\ cu3used = << >>
    /\ cu3pc = "new"

GateNext == DefineDecompositions \/ Inverse \/ UnrollGate

SpecGate == GateInit /\ [][GateNext]_vars

(***************************************************************************)
(* Properties of Unroller.run.                                             *)
(***************************************************************************)
\* Every non-opaque operation of d has its name in the basis.
Conformant(d) == \A i \in DOMAIN d : d[i].opaque \/ d[i].name \in basis

\* The gate-definition graph: the names a gate's first rule is written in.
FirstRuleNames(n) ==
    IF n = "cu3" THEN Cu3Children
    ELSE IF rules[n] = << >> THEN {}
    ELSE Range(rules[n][1])

HasRule(n) == n = "cu3" \/ rules[n] # << >>

\* A gate the pass expands when it meets it.
Live(n) == n \notin basis /\ n \notin opaqueGates

\* The names met when every gate of S the pass expands is expanded.
RECURSIVE ExpansionClosure(_)
ExpansionClosure(S) ==
    LET T == S \cup UNION {FirstRuleNames(n) : n \in {m \in S : Live(m)}}
    IN  IF T = S THEN S ELSE ExpansionClosure(T)

\* The names met when every gate of S is replaced by its rule.
RECURSIVE DefinitionClosure(_)
DefinitionClosure(S) ==
    LET T == S \cup UNION {FirstRuleNames(n) : n \in S}
    IN  IF T = S THEN S ELSE DefinitionClosure(T)

\* The names the unrolling of the caller's graph can meet.
Reached == ExpansionClosure({inp[i].name : i \in DOMAIN inp})

AcyclicRules ==
    \A n \in GateNames : n \notin DefinitionClosure(FirstRuleNames(n))

CompleteRules == \A n \in Reached : Live(n) => HasRule(n)

\* The unrolling meets a gate that it expands and whose expansion leads
\* back to it through gates that are expanded too.
LiveCycleReached ==
    \E n \in Reached :
        /\ Live(n)
        /\ n \in ExpansionClosure(FirstRuleNames(n))

\* C1 -- basis closure: whenever run returns, every operation node of the
\* returned graph that is not flagged opaque has a name of the basis.
C1_BasisClosure ==
    pc = "done" =>
        \A i \in DOMAIN dag : ~dag[i].opaque => dag[i].name \in basis

\* A run that recursed returned a graph that keeps an opaque operation
\* outside the basis beside operations of the basis.
C1_Witness ==
    /\ pc = "done"
    /\ depth >= 1
    /\ \E i \in DOMAIN dag : dag[i].opaque /\ dag[i].name \notin basis
    /\ \E i \in DOMAIN dag : ~dag[i].opaque

\* C2 -- condition preservation: after run returns, every node carries
\* exactly the condition of the node of the caller's graph it descends
\* from (itself, if the pass did not expand it): the descendants of a
\* node conditioned on (reg, val) carry (reg, val), all others none.
C2_ConditionPreserved ==
    pc = "done" =>
        \A i \in DOMAIN dag : dag[i].cond = inp[dag[i].origin].cond

\* Over two rounds a conditioned node was expanded into conditioned nodes.
C2_Witness ==
    /\ pc = "done"
    /\ depth >= 1
    /\ ~rerun
    /\ \E i \in DOMAIN dag :
          /\ dag[i].cond = <<"c", 1>>
          /\ dag[i].name # inp[dag[i].origin].name

\* The node is outside the basis, not opaque, and has no rule.
NoRuleFor(node) ==
    /\ node.name \notin basis
    /\ node.opaque = FALSE
    /\ Decompositions(node, rules, opaqueGates) = << >>

\* C3 -- the loop of a round ends in TranspilerError exactly if the graph
\* of that round (the caller's, or the one earlier rounds produced) holds
\* a node outside the basis, not opaque, with a missing or empty rule
\* list; nothing else raises it.
C3_ErrorIffNoRule ==
    [][ /\ (pc = "loop" =>
              ((pc' = "error") <=> \E i \in DOMAIN dag : NoRuleFor(dag[i])))
        /\ (pc' = "error" => pc \in {"loop", "error"}) ]_vars

\* The error was raised in a recursive round, while the graph also holds
\* an opaque operation outside the basis.
C3_Witness ==
    /\ pc = "error"
    /\ depth >= 1

\* s is a subsequence of t.
RECURSIVE IsSubSeq(_, _, _, _)
IsSubSeq(s, i, t, j) ==
    IF i > Len(s) THEN TRUE
    ELSE IF j > Len(t) THEN FALSE
    ELSE IF s[i] = t[j] THEN IsSubSeq(s, i + 1, t, j + 1)
    ELSE IsSubSeq(s, i, t, j + 1)

IsOpaque(node) == node.opaque

\* C4 -- an opaque node is never expanded: the loop of a round leaves the
\* opaque nodes in the graph, unchanged and in their order, and a graph
\* whose other operations are all in the basis is returned without
\* another round.
C4_OpaqueUntouched ==
    [][ /\ (pc = "loop" =>
              IsSubSeq(SelectSeq(dag, IsOpaque), 1, dag', 1))
        /\ (pc = "check" /\ (\A i \in DOMAIN dag :
                                ~dag[i].opaque => dag[i].name \in basis)
              => pc' = "done") ]_vars

\* The returned graph was rewritten and keeps an opaque node that is
\* outside the basis and has a decomposition rule.
C4_Witness ==
    /\ pc = "done"
    /\ dag # inp
    /\ \E i \in DOMAIN dag :
          /\ dag[i].opaque
          /\ dag[i].name \notin basis
          /\ dag[i] = inp[dag[i].origin]
          /\ Decompositions(dag[i], rules, opaqueGates) # << >>

\* The caller's graph is one unconditioned cu3 and the basis is u1, u3, cx.
LoneCu3 ==
    /\ Len(inp) = 1
    /\ inp[1].name = "cu3"
    /\ inp[1].cond = NoCond
    /\ basis = {"u1", "u3", "cx"}

\* C6 -- the Unroller output for a lone unconditioned cu3(theta, phi, lam)
\* on (c, t) with basis {u1, u3, cx} is u1((lam-phi)/2) t; cx c,t;
\* u3(-theta/2, 0, -(phi+lam)/2) t; cx c,t; u3(theta/2, phi, 0) t.
C6_Cu3Sequence ==
    (LoneCu3 /\ pc = "done") =>
        LET theta == inp[1].params[1]
            phi   == inp[1].params[2]
            lam   == inp[1].params[3]
            c     == inp[1].qargs[1]
            t     == inp[1].qargs[2]
        IN  /\ Len(dag) = 5
            /\ [i \in 1..5 |-> dag[i].name] = <<"u1", "cx", "u3", "cx", "u3">>
            /\ [i \in 1..5 |-> dag[i].qargs]
                  = << <<t>>, <<c, t>>, <<t>>, <<c, t>>, <<t>> >>
            /\ Len(dag[1].params) = 1
            /\ 2 * dag[1].params[1] = lam - phi
            /\ dag[2].params = << >>
            /\ Len(dag[3].params) = 3
            /\ 2 * dag[3].params[1] = 0 - theta
            /\ dag[3].params[2] = 0
            /\ 2 * dag[3].params[3] = 0 - (phi + lam)
            /\ dag[4].params = << >>
            /\ Len(dag[5].params) = 3
            /\ 2 * dag[5].params[1] = theta
            /\ dag[5].params[2] = phi
            /\ dag[5].params[3] = 0
            /\ \A i \in 1..5 : dag[i].cond = NoCond /\ ~dag[i].opaque

\* A cu3 with three different angles, control on qubit 1, was unrolled.
C6_Witness ==
    /\ LoneCu3
    /\ pc = "done"
    /\ Len(dag) = 5
    /\ inp[1].params = <<2, -2, 0>>
    /\ inp[1].qargs = <<1, 0>>

\* The number of rounds the unrolling of gate n takes: the length of the
\* longest chain of expanded gates from n (defined for acyclic rules).
RECURSIVE Rank(_)
Rank(n) ==
    IF ~Live(n) \/ ~HasRule(n) THEN 0
    ELSE LET below == {Rank(m) : m \in FirstRuleNames(n)}
         IN  1 + (IF below = {} THEN 0
                  ELSE CHOOSE r \in below : \A q \in below : q <= r)

MaxRank ==
    LET ranks == {Rank(inp[i].name) : i \in DOMAIN inp}
    IN  IF ranks = {} THEN 0 ELSE CHOOSE r \in ranks : \A q \in ranks : q <= r

C10_Idempotent ==
    (Conformant(inp) \/ rerun) =>
        /\ dag = inp
        /\ depth = 0
        /\ pc \in {"loop", "check", "done"}

\* The second run returned the graph of a first run that had rewritten it.
C10_Witness ==
    /\ rerun
    /\ pc = "done"
    /\ Len(dag) >= 2
    /\ \E i \in DOMAIN dag : dag[i].opaque
    /\ \E i \in DOMAIN dag : ~dag[i].opaque

(***************************************************************************)
(* Claims about UnitarySynthesis.                                          *)
(***************************************************************************)
\* The two-qubit gates spliced in for the node the caller's graph held at
\* place o, in graph order.
SplicedTwoQubit(o) ==
    LET Two(n) == n.synth /\ n.origin = o /\ Len(n.qargs) = 2
    IN  SelectSeq(sdag, Two)

\* The node at place o of the caller's graph is in the graph as it was.
Kept(o) == \E i \in DOMAIN sdag : sdag[i] = sinp[o]

\* Gates spliced in for the node at place o are in the graph.
Replaced(o) == \E i \in DOMAIN sdag : sdag[i].origin = o /\ sdag[i].synth

\* The loop has visited the node at place o.
Visited(o) == \E k \in DOMAIN log : log[k].origin = o

C7_LookupMissNeverFails == spc # "error"

\* C7, the part that holds: a pair missing from the connectivity map, or a
\* duration lookup that raises, leaves the node synthesised with the
\* direction the remaining data gives; run fails only where a duration
\* asserted a direction and the error rate of that direction is missing.
C7_OnlyErrorRateMissFails ==
    /\ spc = "error"
         => /\ layout # "None"
            /\ ~coupling_map.present
            /\ backend_props.present
            /\ log[Len(log)].natural_direction # NoDirection
            /\ \A q \in {<<0, 1>>, <<1, 0>>} : backend_props.error[q] = NoneVal
    /\ \A k \in DOMAIN log :
         (/\ log[k].outcome = "replace"
          /\ Len(sinp[log[k].origin].qargs) = 2
          /\ layout # "None"
          /\ ~coupling_map.present
          /\ backend_props.present
          /\ \A q \in {<<0, 1>>, <<1, 0>>} : backend_props.length[q] = NoneVal)
         => /\ log[k].natural_direction = NoDirection
            /\ log[k].physical_gate_fidelity = NoneVal
            /\ Replaced(log[k].origin)

\* Both duration lookups raised and the node was synthesised all the same.
C7_Witness ==
    /\ spc = "done"
    /\ layout # "None"
    /\ ~coupling_map.present
    /\ backend_props.present
    /\ \A q \in {<<0, 1>>, <<1, 0>>} : backend_props.length[q] = NoneVal
    /\ \E k \in DOMAIN log :
         /\ log[k].outcome = "replace"
         /\ Len(sinp[log[k].origin].qargs) = 2

\* The pass may replace the node: it is named unitary, or swap under pulse
\* optimisation, and a decomposer is there for its number of qubits.
Replaceable(n) ==
    /\ n.name = "unitary" \/ (n.name = "swap" /\ pulse_optimize)
    /\ Len(n.qargs) = 1 => euler_basis # "None"
    /\ Len(n.qargs) = 2 => kak_gate # "None"

\* C8: a node is replaced only if it is named unitary (or swap, under pulse
\* optimisation) and a decomposer is available for its operand count; every
\* other node is in the graph unchanged.
C8_OnlyNamedNodesReplaced ==
    \A o \in DOMAIN sinp :
        /\ Replaced(o) => Replaceable(sinp[o])
        /\ ~Replaceable(sinp[o]) => Kept(o) /\ ~Replaced(o)

\* run returned a graph that still holds a swap node, an entangling gate
\* being selected and pulse optimisation off.
C8_Witness ==
    /\ spc = "done"
    /\ ~pulse_optimize
    /\ kak_gate # "None"
    /\ \E o \in DOMAIN sinp : sinp[o].name = "swap" /\ Kept(o)

(***************************************************************************)
(* Further claims about the Unroller.                                      *)
(***************************************************************************)
\* C11: when run fails for want of a decomposition rule, the graph the
\* caller passed in holds no partial rewrite: it has the nodes it had
\* before the call.
C11_NoPartialRewrite == pc = "error" => dag = inp

\* C11, what the code does: the error leaves in the caller's graph the
\* expansions made before the offending node was met; the graph differs
\* from the one passed in exactly when some node was expanded, and every
\* node it holds stems from a node of the graph passed in.
C11_PartialRewriteLeft ==
    pc = "error" =>
        /\ \A i \in DOMAIN dag : dag[i].origin \in DOMAIN inp
        /\ depth = 0 =>
             \A i \in DOMAIN dag :
                 \/ dag[i] = inp[dag[i].origin]
                 \/ /\ NeedsExpansion(inp[dag[i].origin], basis)
                    /\ dag[i].name \in FirstRuleNames(inp[dag[i].origin].name)

\* The first call failed on its second node after expanding its first.
C11_Witness ==
    /\ pc = "error"
    /\ depth = 0
    /\ Len(inp) = 2
    /\ dag # inp
    /\ dag[Len(dag)] = inp[2]
    /\ dag[1].origin = 1

(***************************************************************************)
(* Properties of marginal_counts.                                          *)
(***************************************************************************)
\* {'000':10, '011':5, '101':3, '110':2}
ExampleCounts ==
    (<<"0", "0", "0">> :> 10) @@ (<<"0", "1", "1">> :> 5)
        @@ (<<"1", "0", "1">> :> 3) @@ (<<"1", "1", "0">> :> 2)

ExampleCall ==
    /\ counts = ExampleCounts
    /\ indices = [given |-> TRUE, idx |-> {0}]
    /\ mpc = "done"

\* Bit i of an outcome: bit 0 is its last character, spaces apart.
BitOf(o, i) ==
    LET NotSpace(c) == c # " "
        bits == SelectSeq(o, NotSpace)
    IN  bits[Len(bits) - i]

\* The outcome o has, at every kept bit position, the bit that key holds
\* for it; key holds the kept bits with the highest position first.
Agrees(o, key, S) ==
    \A i \in S : key[1 + Cardinality({j \in S : j > i})] = BitOf(o, i)

\* The number of bits of the outcomes of counts.
Clbits ==
    LET o == CHOOSE x \in DOMAIN counts : TRUE
    IN  Cardinality({k \in DOMAIN o : o[k] # " "})

RECURSIVE SumOver(_)
SumOver(os) ==
    IF os = {} THEN 0
    ELSE LET o == CHOOSE x \in os : TRUE
         IN  counts[o] + SumOver(os \ {o})

\* The shots of all outcomes of counts that agree with key on the kept bits.
Total(key, S) == SumOver({o \in DOMAIN counts : Agrees(o, key, S)})

\* C12 as stated: the example call returns {'0':13, '1':7}.
C12_ExampleAsStated ==
    ExampleCall => ret = (<<"0">> :> 13) @@ (<<"1">> :> 7)

\* C12, amended: the example call returns {'0':12, '1':8}; and whenever
\* some but not all bit positions are kept, each returned key holds the
\* total count of the outcomes that agree with it on the kept bits, a key
\* being returned if that total is not zero or pad_zeros is set.
C12_MarginalCounts ==
    /\ ExampleCall => ret = (<<"0">> :> 12) @@ (<<"1">> :> 8)
    /\ (/\ mpc = "done"
        /\ indices.given
        /\ indices.idx # {}
        /\ \E i \in 0..(Clbits - 1) : i \notin indices.idx)
       => /\ DOMAIN ret \subseteq BitStrings(Cardinality(indices.idx))
          /\ \A key \in BitStrings(Cardinality(indices.idx)) :
               IF pad_zeros \/ Total(key, indices.idx) # 0
               THEN key \in DOMAIN ret /\ ret[key] = Total(key, indices.idx)
               ELSE key \notin DOMAIN ret

\* The example call has returned.
C12_Witness == ExampleCall /\ DOMAIN ret = {<<"0">>, <<"1">>}

(***************************************************************************)
(* Further properties of UnitarySynthesis.run.                             *)
(***************************************************************************)
\* The known two-qubit primitives, in the order the dictionary of
\* _choose_kak_gate lists them.
KakPriority == <<"cx", "cz", "iswap", "rxx", "ecr">>

\* The first primitive of the list that is in bg, or none.
RECURSIVE FirstPrimitive(_, _)
FirstPrimitive(bg, i) ==
    IF i > Len(KakPriority) THEN "None"
    ELSE IF KakPriority[i] \in bg THEN KakPriority[i]
    ELSE FirstPrimitive(bg, i + 1)

\* C13: the entangling gate is the highest-priority primitive of the list
\* cx, cz, iswap, rxx, ecr that the basis holds, whatever else the basis
\* holds, so that equal bases always give the same gate; none if the basis
\* holds no primitive.
C13_PriorityChoice ==
    spc # "start" => kak_gate = FirstPrimitive(basis_gates, 1)

\* C13, what the code does: the gate is some primitive of the list that the
\* basis holds, and none exactly if the basis holds none; two-qubit nodes
\* are then skipped.
C13_SomePrimitive ==
    spc # "start" =>
        /\ kak_gate = "None" <=>
             \A i \in DOMAIN KakPriority : KakPriority[i] \notin basis_gates
        /\ kak_gate # "None" =>
             kak_gate \in basis_gates
               /\ \E i \in DOMAIN KakPriority : KakPriority[i] = kak_gate
        /\ kak_gate = "None" =>
             \A k \in DOMAIN log :
                 Len(sinp[log[k].origin].qargs) = 2
                     => log[k].outcome = "continue"

\* With cx and cz both in the basis the pass took cz and returned.
C13_Witness ==
    /\ spc = "done"
    /\ {"cx", "cz"} \subseteq basis_gates
    /\ kak_gate = "cz"
    /\ \E o \in DOMAIN sinp : Len(sinp[o].qargs) = 2 /\ Replaced(o)

\* The visit of a two-qubit node for which the pass consulted the gate
\* durations: a decomposer, a layout, calibration data, no connectivity map.
ByDuration(k) ==
    /\ log[k].outcome # "continue"
    /\ Len(sinp[log[k].origin].qargs) = 2
    /\ layout # "None"
    /\ ~coupling_map.present
    /\ backend_props.present

\* The duration of the gate from the node's qubit a to its qubit b
\* (0 or 1), NoneVal if the lookup raises.
Duration(k, a, b) ==
    backend_props.length[<<sinp[log[k].origin].qargs[a + 1],
                           sinp[log[k].origin].qargs[b + 1]>>]

Physical(q) == IF layout = "swap" /\ q \in {0, 1} THEN 1 - q ELSE q

\* The visit of a two-qubit node for which the pass consulted the
\* connectivity map: a decomposer, a layout, a connectivity map.
ByCoupling(k) ==
    /\ log[k].outcome # "continue"
    /\ Len(sinp[log[k].origin].qargs) = 2
    /\ layout # "None"
    /\ coupling_map.present

\* The direction that the adjacencies between qubits a and b give.
OnlyAdjacency(a, b) ==
    IF <<a, b>> \in coupling_map.edges /\ <<b, a>> \notin coupling_map.edges
    THEN <<0, 1>>
    ELSE IF <<b, a>> \in coupling_map.edges
              /\ <<a, b>> \notin coupling_map.edges
    THEN <<1, 0>>
    ELSE NoDirection

\* With no layout no direction is sought and no error raised.
NoLayoutNoHeuristic ==
    layout = "None" =>
        /\ spc # "error"
        /\ \A k \in DOMAIN log :
             /\ log[k].natural_direction = NoDirection
             /\ log[k].physical_gate_fidelity = NoneVal

\* C15 as stated: with a layout and a connectivity map the direction is
\* decided by the adjacencies between the physical qubits that the layout
\* assigns to the node's qubits; with no layout the heuristic is skipped.
C15_DirectionOnLayoutQubits ==
    /\ \A k \in DOMAIN log :
         ByCoupling(k) =>
             log[k].natural_direction =
                 OnlyAdjacency(Physical(sinp[log[k].origin].qargs[1]),
                               Physical(sinp[log[k].origin].qargs[2]))
    /\ NoLayoutNoHeuristic

\* C15, what the code does: the layout is only tested for presence, and
\* the direction is decided by the adjacencies between the node's own
\* qubit indices.
C15_DirectionOnNodeIndices ==
    /\ \A k \in DOMAIN log :
         ByCoupling(k) =>
             log[k].natural_direction =
                 OnlyAdjacency(sinp[log[k].origin].qargs[1],
                               sinp[log[k].origin].qargs[2])
    /\ NoLayoutNoHeuristic

\* Under the layout that exchanges qubits 0 and 1 and a map holding 0->1
\* only, a node on qubits (0,1) was given the direction [0,1].
C15_Witness ==
    /\ spc = "done"
    /\ layout = "swap"
    /\ coupling_map.present
    /\ coupling_map.edges = {<<0, 1>>}
    /\ \E k \in DOMAIN log :
         /\ ByCoupling(k)
         /\ sinp[log[k].origin].qargs = <<0, 1>>
         /\ log[k].natural_direction = <<0, 1>>

\* The visit of a two-qubit node that the pass synthesised.
Synthesised2q(k) ==
    log[k].outcome = "replace" /\ Len(sinp[log[k].origin].qargs) = 2

\* The calibrated fidelity, in percent, of the gate in the direction
\* asserted for the node of visit k; NoneVal if the error rate is missing.
CalibratedFidelity(k) ==
    LET q  == sinp[log[k].origin].qargs
        nd == log[k].natural_direction
        e  == backend_props.error[<<q[nd[1] + 1], q[nd[2] + 1]>>]
    IN  IF e = NoneVal THEN NoneVal ELSE 100 - e

\* C16 as stated: the budget is the configured fidelity if one was given;
\* otherwise, whenever a direction was found, by connectivity map or by
\* durations, the calibrated fidelity of that direction; otherwise none.
C16_FidelityBudget ==
    \A k \in DOMAIN log :
        Synthesised2q(k) =>
            log[k].basis_fidelity =
                IF fidelity # NoneVal THEN fidelity
                ELSE IF log[k].natural_direction # NoDirection
                          /\ backend_props.present
                THEN CalibratedFidelity(k)
                ELSE NoneVal

\* C16, what the code does: the calibrated fidelity is the budget only
\* where the direction was found by durations; where it was found by the
\* connectivity map the budget is none, calibration data or not.
C16_BudgetFromDurationsOnly ==
    \A k \in DOMAIN log :
        Synthesised2q(k) =>
            log[k].basis_fidelity =
                IF fidelity # NoneVal THEN fidelity
                ELSE IF log[k].natural_direction # NoDirection
                          /\ backend_props.present
                          /\ ~coupling_map.present
                THEN CalibratedFidelity(k)
                ELSE NoneVal

\* A direction found by the connectivity map, calibration data present,
\* no fidelity configured: the node was synthesised with no budget.
C16_Witness ==
    /\ spc = "done"
    /\ fidelity = NoneVal
    /\ coupling_map.present
    /\ backend_props.present
    /\ \E k \in DOMAIN log :
         /\ Synthesised2q(k)
         /\ log[k].natural_direction # NoDirection
         /\ CalibratedFidelity(k) # NoneVal
         /\ log[k].basis_fidelity = NoneVal

\* C17: the Euler basis is the first family, in the order U3 {u3},
\* U1X {u1, rx}, RR {r}, ZYZ {rz, ry}, ZXZ {rz, rx}, XYX {rx, ry}, whose
\* gates are all in the target basis, none if no family is; {rz, ry}
\* gives ZYZ, a basis with only part of every family gives none.  A
\* one-qubit unitary is then written in the gates of the family, or left
\* alone if there is none.
C17_EulerBasisChoice ==
    spc # "start" =>
        /\ euler_basis =
             IF "u3" \in basis_gates THEN "U3"
             ELSE IF {"u1", "rx"} \subseteq basis_gates THEN "U1X"
             ELSE IF "r" \in basis_gates THEN "RR"
             ELSE IF {"rz", "ry"} \subseteq basis_gates THEN "ZYZ"
             ELSE IF {"rz", "rx"} \subseteq basis_gates THEN "ZXZ"
             ELSE IF {"rx", "ry"} \subseteq basis_gates THEN "XYX"
             ELSE "None"
        /\ basis_gates = {"rz", "ry"} => euler_basis = "ZYZ"
        /\ basis_gates \in {{}, {"u1", "rz"}, {"rx", "cx"}}
             => euler_basis = "None"
        /\ \A i \in DOMAIN sdag :
             (sdag[i].synth /\ Len(sinp[sdag[i].origin].qargs) = 1)
                 => euler_basis # "None" /\ sdag[i].name \in basis_gates
        /\ spc = "done" =>
             \A o \in DOMAIN sinp :
                 (sinp[o].name = "unitary" /\ Len(sinp[o].qargs) = 1)
                     => (Kept(o) <=> euler_basis = "None")

\* Over the basis {rz, ry} a one-qubit unitary was written as rz, ry, rz.
C17_Witness ==
    /\ spc = "done"
    /\ basis_gates = {"rz", "ry"}
    /\ euler_basis = "ZYZ"
    /\ Len(sinp) = 1
    /\ [i \in DOMAIN sdag |-> sdag[i].name] = <<"rz", "ry", "rz">>

(***************************************************************************)
(* Properties of the rule cache of Cu3Gate.                                *)
(***************************************************************************)
\* The rule that cu3.py writes for the angles theta, phi, lam, twice the
\* half angles being stated: u1 t; cx c,t; u3 t; cx c,t; u3 t.
IsRuleFor(rule, theta, phi, lam) ==
    /\ Len(rule.ops) = 5
    /\ [i \in 1..5 |-> rule.ops[i].name] = <<"u1", "cx", "u3", "cx", "u3">>
    /\ [i \in 1..5 |-> rule.ops[i].qargs]
           = << <<1>>, <<0, 1>>, <<1>>, <<0, 1>>, <<1>> >>
    /\ 2 * rule.ops[1].params[1] = lam - phi
    /\ 2 * rule.ops[3].params[1] = -theta
    /\ rule.ops[3].params[2] = 0
    /\ 2 * rule.ops[3].params[3] = -(phi + lam)
    /\ 2 * rule.ops[5].params[1] = theta
    /\ rule.ops[5].params[2] = phi
    /\ rule.ops[5].params[3] = 0

\* C18: after any sequence of rule builds and inversions the stored rule is
\* absent or was built from the gate's current parameters; an inversion
\* maps (theta, phi, lam) to (-theta, -lam, -phi) and clears the store; the
\* unroller never takes for the gate a rule built from other parameters
\* than the current ones, and takes none (it raises) until the rule of an
\* inverted gate is rebuilt.
C18_RuleCacheConsistent ==
    /\ [](/\ cu3decompositions # << >> =>
               /\ Len(cu3decompositions) = 1
               /\ IsRuleFor(cu3decompositions[1],
                            cu3param[1], cu3param[2], cu3param[3])
          /\ cu3pc = "expanded" =>
               IsRuleFor(cu3used, cu3param[1], cu3param[2], cu3param[3])
          /\ cu3pc = "error" => cu3decompositions = << >>)
    /\ [][/\ cu3pc' = "inverted" =>
               /\ cu3param' = <<-cu3param[1], -cu3param[3], -cu3param[2]>>
               /\ cu3decompositions' = << >>
          /\ (cu3pc = "inverted" /\ cu3pc' \in {"expanded", "error"})
               => cu3pc' = "error"
          /\ cu3pc' = "built" => cu3param' = cu3param]_vars

\* cu3(-2, 2, 0) has just been inverted: its angles are (2, 0, -2) and no
\* rule is stored.
C18_Witness ==
    /\ cu3pc = "inverted"
    /\ cu3param = <<2, 0, -2>>
    /\ cu3decompositions = << >>

================================================================
